---- MODULE Spec2Model ----
(***************************************************************************)
(* Bouncing rings (src/src/main.rs): a collection of rings that grow until *)
(* they intersect another ring, shrink, and bounce off radius zero.        *)
(*                                                                         *)
(* Lengths are f32 in the source.  Every length the program produces is a  *)
(* multiple of 0.5 (radius starts at 0.0 and moves by growth_rate = 0.5),  *)
(* so the model counts lengths in units of 0.5: the integer k stands for   *)
(* the f32 value k * 0.5, which f32 represents exactly in the modelled     *)
(* range.  Origins are points whose coordinates are multiples of 0.5.      *)
(* The distance of two origins is sqrt(dx*dx + dy*dy), in general not a    *)
(* multiple of 0.5; the model keeps the squared distance and compares the  *)
(* square root against a bound through DistanceGT / DistanceLT.            *)
(***************************************************************************)
EXTENDS Integers, Sequences, FiniteSets, TLC

\* ---------------------------------------------------------------- bounds

\* Most rings the collection may hold (the Vec is unbounded in the source).
MaxRings == 3

\* No tick is taken any more once a ring's radius has reached MaxRadius or
\* -MaxRadius.
MaxRadius == 3

\* Number of distinct colours a spawn may draw.
NumColors == 2

\* ------------------------------------------------------------- constants

\* Ring::default: growth_rate 0.5, in units of 0.5.
DefaultGrowthRate == 1

\* Ring::default: weight 3.0, in units of 0.5.
DefaultWeight == 6

\* Ring::default: radius 0.0.
DefaultRadius == 0

\* Press locations the mouse may report, coordinates in units of 0.5.
Points == {<<0, 0>>, <<3, 0>>}

\* rgb(gen_range(0..255), gen_range(0..255), gen_range(200..255)), abstracted
\* to a colour index.
Colors == 1..NumColors

\* nannou::state::mouse::ButtonPosition: Up | Down(pos).
Up == [kind |-> "Up"]

Down(pos) == [kind |-> "Down", pos |-> pos]

ButtonPositions == {Up} \cup {Down(p) : p \in Points}

RingDirections == {"Growing", "Shrinking"}

\* ----------------------------------------------------------------- state

VARIABLES
    rings,          \* Model.rings: Vec<Ring>
    button_state,   \* Model.button_state
    left_button,    \* update(): the button state sampled by the last tick
    clone,          \* Vec<Ring>::update: the snapshot taken by the last step
    run,            \* observer, per ring: its current run of ticks without
                    \* intersection and without change of direction; kept
                    \* by SpecRun, left empty by the other specifications
    frame           \* view(): the draw commands of the last frame rendered;
                    \* kept by SpecView, left empty by the other
                    \* specifications

vars == <<rings, button_state, left_button, clone, run, frame>>

\* ------------------------------------------------------------- geometry

\* Point::distance_to, kept squared: dx * dx + dy * dy.
DistanceSq(p, q) ==
    LET dx == p[1] - q[1]
        dy == p[2] - q[2]
    IN  dx * dx + dy * dy

\* sqrt(dsq) > bound, for the f32 square root of an integer dsq and a bound
\* that is a multiple of 0.5: the square root is non-negative, monotone, and
\* exact on perfect squares.
DistanceGT(dsq, bound) == bound < 0 \/ dsq > bound * bound

\* sqrt(dsq) < bound.
DistanceLT(dsq, bound) == bound > 0 /\ dsq < bound * bound

\* f32::abs.
Abs(x) == IF x < 0 THEN -x ELSE x

\* ------------------------------------------------------------------ Ring

\* The derived equality: every field, the colour included.
RingEqAllFields(a, b) == a = b

\* <Ring as PartialEq>::eq: every field but the colour.
RingEq(a, b) ==
    /\ a.origin = b.origin
    /\ a.radius = b.radius
    /\ a.weight = b.weight
    /\ a.growth_rate = b.growth_rate
    /\ a.direction = b.direction

\* The comparison of line 89 with the external range built from r1 - r2.
InBandsInternalOnly(dsq, r1, r2, g) ==
    DistanceGT(dsq, Abs(r1 - r2) - g) /\ DistanceLT(dsq, Abs(r1 - r2) + g)

\* The comparison of line 89 with ranges that include their end points.
InBandsClosed(dsq, r1, r2, g) ==
    \/ ~DistanceLT(dsq, r1 + r2 - g) /\ ~DistanceGT(dsq, r1 + r2 + g)
    \/ ~DistanceLT(dsq, Abs(r1 - r2) - g) /\ ~DistanceGT(dsq, Abs(r1 - r2) + g)

\* The comparison of line 89 with the internal range of line 87 built from
\* r1 - r2 without abs().
InBandsSigned(dsq, r1, r2, g) ==
    \/ DistanceGT(dsq, r1 + r2 - g) /\ DistanceLT(dsq, r1 + r2 + g)
    \/ DistanceGT(dsq, (r1 - r2) - g) /\ DistanceLT(dsq, (r1 - r2) + g)

\* The comparison of line 89 on the two ranges of lines 86-87.
InBands(dsq, r1, r2, g) ==
    \/ DistanceGT(dsq, r1 + r2 - g) /\ DistanceLT(dsq, r1 + r2 + g)
    \/ DistanceGT(dsq, Abs(r1 - r2) - g) /\ DistanceLT(dsq, Abs(r1 - r2) + g)

\* Ring::is_intersecting without the test of lines 74-76.
IsIntersectingNoSelfCheck(self, other) ==
    IF self.direction = "Shrinking" /\ other.direction = "Shrinking"
    THEN FALSE
    ELSE InBands(DistanceSq(self.origin, other.origin),
                 self.radius, other.radius, self.growth_rate)

\* Ring::is_intersecting without the arm for two Shrinking rings.
IsIntersectingNoSkip(self, other) ==
    IF RingEq(self, other)
    THEN FALSE
    ELSE InBands(DistanceSq(self.origin, other.origin),
                 self.radius, other.radius, self.growth_rate)

\* Ring::is_intersecting.
IsIntersecting(self, other) ==
    IF RingEq(self, other)
    THEN FALSE
    ELSE IF self.direction = "Shrinking" /\ other.direction = "Shrinking"
    THEN FALSE
    ELSE InBands(DistanceSq(self.origin, other.origin),
                 self.radius, other.radius, self.growth_rate)

\* Ring::update, lines 107-113: the scan of the snapshot from index i on,
\* leaving at the first intersecting ring.
RECURSIVE ScanFrom(_, _, _)
ScanFrom(self, others, i) ==
    IF i > Len(others)
    THEN FALSE
    ELSE IF IsIntersecting(self, others[i])
    THEN TRUE
    ELSE ScanFrom(self, others, i + 1)

\* Ring::update, lines 114-119: the direction after the intersection flip.
Flip(direction) ==
    IF direction = "Growing" THEN "Shrinking" ELSE "Growing"

\* Ring::update with the scan of lines 107-113 run to the end and the
\* direction toggled once per intersecting ring.
RingUpdateToggleEach(self, others) ==
    LET hits == Cardinality({j \in 1..Len(others) : IsIntersecting(self, others[j])})
        d1 == IF hits % 2 = 1 THEN Flip(self.direction) ELSE self.direction
        r1 == IF d1 = "Growing"
              THEN self.radius + self.growth_rate
              ELSE self.radius - self.growth_rate
        d2 == IF r1 < 0 /\ d1 = "Shrinking" THEN "Growing" ELSE d1
    IN  [self EXCEPT !.radius = r1, !.direction = d2]

\* Ring::update with the radius delta of lines 121-124 left out on a tick
\* that flips the direction by intersection.
RingUpdateFlipOrMove(self, others) ==
    LET intersecting == ScanFrom(self, others, 1)
        d1 == IF intersecting THEN Flip(self.direction) ELSE self.direction
        r1 == IF intersecting
              THEN self.radius
              ELSE IF d1 = "Growing"
                   THEN self.radius + self.growth_rate
                   ELSE self.radius - self.growth_rate
        d2 == IF r1 < 0 /\ d1 = "Shrinking" THEN "Growing" ELSE d1
    IN  [self EXCEPT !.radius = r1, !.direction = d2]

\* Ring::update with the zero-bounce of lines 126-129 tested before the
\* radius delta of lines 121-124.
RingUpdateBounceFirst(self, others) ==
    LET intersecting == ScanFrom(self, others, 1)
        d1 == IF intersecting THEN Flip(self.direction) ELSE self.direction
        d2 == IF self.radius < 0 /\ d1 = "Shrinking" THEN "Growing" ELSE d1
        r1 == IF d2 = "Growing"
              THEN self.radius + self.growth_rate
              ELSE self.radius - self.growth_rate
    IN  [self EXCEPT !.radius = r1, !.direction = d2]

\* Ring::update with the zero-bounce of line 126 taken at radius <= 0.
RingUpdateBounceAtZero(self, others) ==
    LET intersecting == ScanFrom(self, others, 1)
        d1 == IF intersecting THEN Flip(self.direction) ELSE self.direction
        r1 == IF d1 = "Growing"
              THEN self.radius + self.growth_rate
              ELSE self.radius - self.growth_rate
        d2 == IF r1 <= 0 /\ d1 = "Shrinking" THEN "Growing" ELSE d1
    IN  [self EXCEPT !.radius = r1, !.direction = d2]

\* Ring::update with the radius delta of lines 121-124 taken before the
\* intersection flip of lines 114-119.
RingUpdateDeltaFirst(self, others) ==
    LET intersecting == ScanFrom(self, others, 1)
        r1 == IF self.direction = "Growing"
              THEN self.radius + self.growth_rate
              ELSE self.radius - self.growth_rate
        d1 == IF intersecting THEN Flip(self.direction) ELSE self.direction
        d2 == IF r1 < 0 /\ d1 = "Shrinking" THEN "Growing" ELSE d1
    IN  [self EXCEPT !.radius = r1, !.direction = d2]

\* Ring::update without the zero-bounce of lines 126-129.
RingUpdateNoBounce(self, others) ==
    LET intersecting == ScanFrom(self, others, 1)
        d1 == IF intersecting THEN Flip(self.direction) ELSE self.direction
        r1 == IF d1 = "Growing"
              THEN self.radius + self.growth_rate
              ELSE self.radius - self.growth_rate
    IN  [self EXCEPT !.radius = r1, !.direction = d1]

\* Ring::update.
RingUpdate(self, others) ==
    LET intersecting == ScanFrom(self, others, 1)
        d1 == IF intersecting THEN Flip(self.direction) ELSE self.direction
        r1 == IF d1 = "Growing"
              THEN self.radius + self.growth_rate
              ELSE self.radius - self.growth_rate
        d2 == IF r1 < 0 /\ d1 = "Shrinking" THEN "Growing" ELSE d1
    IN  [self EXCEPT !.radius = r1, !.direction = d2]

\* Ring::default followed by set_origin (lines 225-226), with the colour drawn.
NewRing(pos, color) ==
    [ color       |-> color,
      origin      |-> pos,
      radius      |-> DefaultRadius,
      weight      |-> DefaultWeight,
      growth_rate |-> DefaultGrowthRate,
      direction   |-> "Growing" ]

\* ------------------------------------------------------------- Vec<Ring>

\* The loop of Vec<Ring>::update without the clone: each ring scans the vector
\* as mutated so far.
RECURSIVE UpdateLoopInPlace(_, _, _)
UpdateLoopInPlace(v, snapshot, i) ==
    IF i > Len(v)
    THEN v
    ELSE UpdateLoopInPlace([v EXCEPT ![i] = RingUpdate(v[i], v)], snapshot, i + 1)

\* <Vec<Ring> as Nannou>::update, lines 195-197: the loop over iter_mut()
\* from index i on; v is the vector being mutated, snapshot the clone.
RECURSIVE UpdateLoop(_, _, _)
UpdateLoop(v, snapshot, i) ==
    IF i > Len(v)
    THEN v
    ELSE UpdateLoop([v EXCEPT ![i] = RingUpdate(v[i], snapshot)], snapshot, i + 1)

\* A step that also drops the rings left with a negative radius.
VecUpdateRetain(v) ==
    LET NonNegative(ring) == ring.radius >= 0
    IN  SelectSeq(UpdateLoop(v, v, 1), NonNegative)

\* <Vec<Ring> as Nannou>::update.
VecUpdate(v) == UpdateLoop(v, v, 1)

\* An insertion at the front of the vector.
PushFront(v, ring) == <<ring>> \o v

\* Vec::push (line 227).
Push(v, ring) == Append(v, ring)

\* ----------------------------------------------------------------- Model

\* A level-triggered spawn: one ring on every tick that samples Down.
SpawnsOnLevel(recorded, sampled) == sampled.kind = "Down"

\* update(), lines 221-224: a ring is spawned on this tick.
Spawns(recorded, sampled) == recorded # sampled /\ sampled.kind = "Down"

\* update(), lines 221-231: the button state recorded after the tick.
Recorded(recorded, sampled) == IF recorded # sampled THEN sampled ELSE recorded

\* Model::default.
Init ==
    /\ rings = <<>>
    /\ button_state = Up
    /\ left_button = Up
    /\ clone = <<>>
    /\ run = <<>>
    /\ frame = <<>>

\* The bound on the radii: no tick is taken from a state that holds a ring
\* whose radius has reached max or -max.
Bounded(v, max) == \A i \in 1..Len(v) : Abs(v[i].radius) < max

\* <Model as Nannou>::update: the step of the collection v, which takes its
\* snapshot.
ModelUpdate(v) ==
    /\ clone' = v
    /\ rings' = VecUpdate(v)

\* update() with the step of line 232 taken before the spawn of lines
\* 221-229.
UpdateStepFirst(sampled, color) ==
    LET stepped == VecUpdate(rings)
        spawned == IF Spawns(button_state, sampled)
                   THEN Push(stepped, NewRing(sampled.pos, color))
                   ELSE stepped
    IN  /\ Len(spawned) <= MaxRings
        /\ left_button' = sampled
        /\ button_state' = Recorded(button_state, sampled)
        /\ clone' = rings
        /\ rings' = spawned

\* update(): one tick with the sampled button state and the drawn colour.
Update(sampled, color) ==
    LET spawned == IF Spawns(button_state, sampled)
                   THEN Push(rings, NewRing(sampled.pos, color))
                   ELSE rings
    IN  /\ Len(spawned) <= MaxRings
        /\ left_button' = sampled
        /\ button_state' = Recorded(button_state, sampled)
        /\ ModelUpdate(spawned)

\* update(), line 225: Ring::new() draws a colour only on a spawning tick.
Drawn(recorded, sampled) ==
    IF Spawns(recorded, sampled) THEN Colors ELSE {1}

Next ==
    \E sampled \in ButtonPositions :
        \E color \in Drawn(button_state, sampled) :
            /\ Bounded(rings, MaxRadius)
            /\ Update(sampled, color)
            /\ UNCHANGED <<run, frame>>

Spec == Init /\ [][Next]_vars

\* ------------------------------------------ the predicate as specified

\* The integer part of the square root of n.
Isqrt(n) == CHOOSE k \in 0..n : k * k <= n /\ n < (k + 1) * (k + 1)

\* lo < d < hi for the distance d = sqrt(dsq) and integers lo, hi.
StrictlyInside(dsq, lo, hi) ==
    LET f == Isqrt(dsq)
    IN  /\ f > lo \/ (f = lo /\ f * f # dsq)
        /\ f < hi

\* The equality of section 3: origin, radius, weight, growth_rate and
\* direction match; the colour is not looked at.
SameRing(a, b) ==
    \A f \in {"origin", "radius", "weight", "growth_rate", "direction"} : a[f] = b[f]

\* The intersection predicate as specified: the rings differ, are not both
\* Shrinking, and d is strictly inside the external or the internal band,
\* bands taken with the first ring's growth_rate.
Touching(a, b) ==
    LET dsq == DistanceSq(a.origin, b.origin)
        g   == a.growth_rate
        s   == a.radius + b.radius
        t   == Abs(a.radius - b.radius)
    IN  /\ ~SameRing(a, b)
        /\ ~(a.direction = "Shrinking" /\ b.direction = "Shrinking")
        /\ StrictlyInside(dsq, s - g, s + g) \/ StrictlyInside(dsq, t - g, t + g)

\* ------------------------------------------------- the runs of every ring

\* The runs after a step from snapshot to after: a ring that intersected a
\* ring of the snapshot or changed direction starts a new run at its new
\* radius; any other ring has gone one more tick in its run.  A ring
\* spawned on this tick enters with an empty run at its spawn radius.
RunAfter(before, snapshot, after) ==
    [ i \in 1..Len(after) |->
        LET prev == IF i <= Len(before)
                    THEN before[i]
                    ELSE [n |-> 0, from |-> snapshot[i].radius]
        IN  IF \/ \E j \in 1..Len(snapshot) : Touching(snapshot[i], snapshot[j])
               \/ after[i].direction # snapshot[i].direction
            THEN [n |-> 0, from |-> after[i].radius]
            ELSE [n |-> prev.n + 1, from |-> prev.from] ]

\* The bound on the radii where the runs are observed.
RunMaxRadius == 7

\* update() with every ring's run observed; the colour drawn is always the
\* same one.
NextRun ==
    \E sampled \in ButtonPositions :
        /\ Bounded(rings, RunMaxRadius)
        /\ Update(sampled, 1)
        /\ run' = RunAfter(run, clone', rings')
        /\ UNCHANGED frame

SpecRun == Init /\ [][NextRun]_vars

\* ------------------------------------------------------------ drawing

\* Largest radius a ring reaches, and largest number of rings, in the runs
\* that draw.
ViewMaxRadius == 3

ViewMaxRings == 2

\* Model.bg_color, set by Model::default and never assigned again.
BgColor == "Black"

\* Ring::display: one ellipse, no fill, of width and height twice the radius
\* at the ring's origin, stroked in the ring's colour and weight.
RingDisplay(self) ==
    [ cmd           |-> "ellipse",
      w             |-> self.radius * 2,
      h             |-> self.radius * 2,
      x_y           |-> self.origin,
      stroke        |-> self.color,
      stroke_weight |-> self.weight ]

\* Vec<Ring>::display with the rings taken last to first.
VecDisplayReversed(v) == [i \in 1..Len(v) |-> RingDisplay(v[Len(v) + 1 - i])]

\* Vec<Ring>::display: the rings' ellipses in the order of self.iter().
VecDisplay(v) == [i \in 1..Len(v) |-> RingDisplay(v[i])]

\* <Model as Nannou>::display: the background, then the rings.
ModelDisplay(bg_color, v) ==
    <<[cmd |-> "background", color |-> bg_color]>> \o VecDisplay(v)

\* view(): the model is displayed into the frame; it is borrowed immutably.
View ==
    /\ frame' = ModelDisplay(BgColor, rings)
    /\ UNCHANGED <<rings, button_state, left_button, clone, run>>

\* update() and view() called in any order.
NextView ==
    \/ \E sampled \in ButtonPositions :
         \E color \in Drawn(button_state, sampled) :
            /\ Bounded(rings, ViewMaxRadius)
            /\ Update(sampled, color)
            /\ Len(rings') <= ViewMaxRings
            /\ UNCHANGED <<run, frame>>
    \/ View

SpecView == Init /\ [][NextView]_vars

\* ------------------------------------------- the functions on their domain

\* Largest radius, and largest growth_rate, of the rings the functions are
\* applied to.
FnMaxRadius == 3

FnMaxGrowthRate == 2

\* Origins of the rings the functions are applied to: the press locations and
\* a point at an irrational distance from them.
FnPoints == Points \cup {<<2, 2>>}

\* Ring values (lines 59-66) over the bounded field ranges.
FnRings ==
    [ color       : Colors,
      origin      : FnPoints,
      radius      : (-1)..FnMaxRadius,
      weight      : {DefaultWeight},
      growth_rate : 1..FnMaxGrowthRate,
      direction   : RingDirections ]

\* A model holding any two rings, no button pressed.
InitFn ==
    /\ rings \in [1..2 -> FnRings]
    /\ button_state = Up
    /\ left_button = Up
    /\ clone = <<>>
    /\ run = <<>>
    /\ frame = <<>>

\* Model::update on that collection (no press is sampled), as long as every
\* radius is within the range of the inputs.
NextFn ==
    /\ Bounded(rings, FnMaxRadius + 1)
    /\ ModelUpdate(rings)
    /\ UNCHANGED <<button_state, left_button, run, frame>>

SpecFn == InitFn /\ [][NextFn]_vars

\* A model holding one ring only, Shrinking at a radius >= 0, no button
\* pressed.
InitLone ==
    /\ rings \in [1..1 -> {ring \in FnRings :
                               ring.direction = "Shrinking" /\ ring.radius >= 0}]
    /\ button_state = Up
    /\ left_button = Up
    /\ clone = <<>>
    /\ run = <<>>
    /\ frame = <<>>

SpecLone == InitLone /\ [][NextFn]_vars

\* ---------------------------------------------------------------- claims

\* The loop of Vec<Ring>::update run over the indices i, i-1, .., 1.
RECURSIVE UpdateLoopDown(_, _, _)
UpdateLoopDown(v, snapshot, i) ==
    IF i < 1
    THEN v
    ELSE UpdateLoopDown([v EXCEPT ![i] = RingUpdate(v[i], snapshot)], snapshot, i - 1)

\* C1: after a step every ring is Ring::update applied to its own pre-step
\* state and the pre-step state of all rings (the snapshot), so the sequential
\* loop equals the simultaneous update and the loop run in the opposite order.
C1_StepIsSimultaneous ==
    /\ Len(rings) = Len(clone)
    /\ \A i \in 1..Len(rings) : rings[i] = RingUpdate(clone[i], clone)
    /\ rings = UpdateLoopDown(clone, clone, Len(clone))

\* C1 witness: a step in which a ring processed earlier changed direction and
\* a ring processed later intersected it in the snapshot, and in which a loop
\* reading the mutated vector would have ended differently.
C1_Witness ==
    /\ Len(rings) = Len(clone)
    /\ \E i, j \in 1..Len(clone) :
          /\ i < j
          /\ clone[i].direction # rings[i].direction
          /\ IsIntersecting(clone[j], clone[i])
    /\ UpdateLoopInPlace(clone, clone, 1) # rings

\* C2: a tick spawns one ring iff the sampled button state differs from the
\* recorded one and is Down, and spawns none otherwise; the recorded state
\* becomes the sampled state.
C2_EdgeTriggered ==
    [][ /\ button_state' = left_button'
        /\ Len(rings') = Len(rings) +
              (IF left_button' # button_state /\ left_button'.kind = "Down"
               THEN 1 ELSE 0) ]_vars

\* C2 witness: one press held over three ticks has spawned a single ring.
C2_Witness ==
    /\ Len(rings) = 1
    /\ rings[1].radius = 3
    /\ button_state = Down(rings[1].origin)

\* |d - (r1 + r2)| < growth_rate for the origins' distance d of rings a and b.
NearTouch(a, b) ==
    LET dsq == DistanceSq(a.origin, b.origin)
        s   == a.radius + b.radius
    IN  DistanceGT(dsq, s - a.growth_rate) /\ DistanceLT(dsq, s + a.growth_rate)

\* Both rings Growing before the step, intersecting each other in the
\* snapshot, and both Shrinking after the step.
BothReverse(i, j) ==
    /\ IsIntersecting(clone[i], clone[j])
    /\ IsIntersecting(clone[j], clone[i])
    /\ rings[i].direction = "Shrinking"
    /\ rings[j].direction = "Shrinking"

\* C3 as claimed: two rings that are both Growing before a step, with
\* |d - (r1 + r2)| < growth_rate, intersect each other and are both Shrinking
\* after the step.
C3_AsClaimed ==
    \A i, j \in 1..Len(clone) :
        ( /\ i # j
          /\ clone[i].direction = "Growing"
          /\ clone[j].direction = "Growing"
          /\ NearTouch(clone[i], clone[j]) )
        => BothReverse(i, j)

\* C3 amended: the same, for two rings whose radii before the step are both
\* at least growth_rate.
C3_BothShrinkFromGrowthRate ==
    \A i, j \in 1..Len(clone) :
        ( /\ i # j
          /\ clone[i].direction = "Growing"
          /\ clone[j].direction = "Growing"
          /\ clone[i].radius >= clone[i].growth_rate
          /\ clone[j].radius >= clone[j].growth_rate
          /\ NearTouch(clone[i], clone[j]) )
        => BothReverse(i, j)

\* C3 witness: two Growing rings of radius >= growth_rate met within the
\* band, and the step left both Shrinking.
C3_Witness ==
    \E i, j \in 1..Len(clone) :
        /\ i # j
        /\ clone[i].direction = "Growing"
        /\ clone[j].direction = "Growing"
        /\ clone[i].radius >= clone[i].growth_rate
        /\ clone[j].radius >= clone[j].growth_rate
        /\ NearTouch(clone[i], clone[j])
        /\ BothReverse(i, j)

\* The circles of rings a and b overlap with the external band behind them:
\* d <= r1 + r2 - growth_rate and d >= |r1 - r2| + growth_rate.  While both
\* rings grow, r1 + r2 only increases and |r1 - r2| stays, so from here no
\* later tick finds d inside either band.
GrownThrough(a, b) ==
    LET dsq == DistanceSq(a.origin, b.origin)
    IN  /\ a.direction = "Growing"
        /\ b.direction = "Growing"
        /\ ~DistanceGT(dsq, a.radius + b.radius - a.growth_rate)
        /\ ~DistanceLT(dsq, Abs(a.radius - b.radius) + a.growth_rate)

\* C4 as claimed: two rings at distinct points, the only rings spawned, never
\* grow through each other; they are never both Growing with overlapping
\* circles and no intersection left to detect.
C4_NoGrowingThrough ==
    (Len(rings) = 2 /\ rings[1].origin # rings[2].origin)
    => ~GrownThrough(rings[1], rings[2])

\* The step flipped ring i by intersection: its radius moved against the
\* direction it had in the snapshot.
Flipped(i) ==
    rings[i].radius - clone[i].radius #
        (IF clone[i].direction = "Growing"
         THEN clone[i].growth_rate ELSE -clone[i].growth_rate)

\* C5: is_intersecting(R, O) is true iff R and O are not equal, not both
\* Shrinking, and d is strictly inside the external band or the internal band
\* taken with R's growth_rate; a step flips a ring iff this holds of it and
\* some ring of the snapshot.
C5_IntersectsIffInsideBand ==
    Len(clone) = Len(rings) =>
        \A i \in 1..Len(clone) :
            /\ \A j \in 1..Len(clone) :
                  IsIntersecting(clone[i], clone[j]) <=> Touching(clone[i], clone[j])
            /\ Flipped(i) <=> \E j \in 1..Len(clone) : Touching(clone[i], clone[j])

\* C5 witness: two different rings, not both Shrinking, with d exactly on the
\* upper end of the external band and outside the internal band: not
\* intersecting, and the step did not flip the first.
C5_Witness ==
    /\ Len(clone) = 2
    /\ Len(rings) = 2
    /\ LET a == clone[1]
           b == clone[2]
           e == a.radius + b.radius + a.growth_rate
       IN  /\ ~SameRing(a, b)
           /\ a.direction = "Growing"
           /\ e > 0
           /\ DistanceSq(a.origin, b.origin) = e * e
           /\ ~IsIntersecting(a, b)
           /\ ~Flipped(1)

\* C6: is_intersecting(R, O) is false whenever O matches R in origin, radius,
\* weight, growth_rate and direction, whatever the colours; in a step no ring
\* is flipped by its own snapshot copy or by a ring matching it: a flipped
\* ring intersects a ring of the snapshot that differs from it.
C6_SelfExclusion ==
    \A i \in 1..Len(clone) :
        /\ \A j \in 1..Len(clone) :
              SameRing(clone[i], clone[j]) => ~IsIntersecting(clone[i], clone[j])
        /\ Flipped(i) =>
              \E j \in 1..Len(clone) :
                  ~SameRing(clone[i], clone[j]) /\ IsIntersecting(clone[i], clone[j])

\* C6 witness: the snapshot held two rings at different indices that match
\* in all compared fields but differ in colour, with d inside the band, and
\* the step flipped neither.
C6_Witness ==
    \E i, j \in 1..Len(clone) :
        /\ i # j
        /\ SameRing(clone[i], clone[j])
        /\ clone[i].color # clone[j].color
        /\ InBands(DistanceSq(clone[i].origin, clone[j].origin),
                   clone[i].radius, clone[j].radius, clone[i].growth_rate)
        /\ ~Flipped(i)
        /\ ~Flipped(j)

\* Every ring of the snapshot was Shrinking.
AllShrinking == \A i \in 1..Len(clone) : clone[i].direction = "Shrinking"

\* C7: is_intersecting(R, O) is false whenever R and O are both Shrinking;
\* a step from a snapshot in which every ring is Shrinking takes growth_rate
\* off every radius and leaves a ring Growing only by the zero-bounce (its
\* new radius is negative).
C7_ShrinkingNeverFlip ==
    /\ \A i, j \in 1..Len(clone) :
          (clone[i].direction = "Shrinking" /\ clone[j].direction = "Shrinking")
          => ~IsIntersecting(clone[i], clone[j])
    /\ AllShrinking =>
          \A i \in 1..Len(clone) :
              /\ rings[i].radius = clone[i].radius - clone[i].growth_rate
              /\ rings[i].direction =
                    (IF rings[i].radius < 0 THEN "Growing" ELSE "Shrinking")

\* C7 witness: a step from a snapshot of Shrinking rings only, two of them
\* different and with d inside a band.
C7_Witness ==
    /\ AllShrinking
    /\ \E i, j \in 1..Len(clone) :
          /\ ~SameRing(clone[i], clone[j])
          /\ InBands(DistanceSq(clone[i].origin, clone[j].origin),
                     clone[i].radius, clone[j].radius, clone[i].growth_rate)
          /\ rings[i].direction = "Shrinking"

\* C8: a spawning tick appends exactly one ring to the end of the collection
\* before its step: origin the press location, radius 0, weight 3.0 (6 halves),
\* growth_rate 0.5 (1 half), direction Growing; the rings already there are
\* unchanged and the size goes up by one.
C8_SpawnAppendsOne ==
    [][ (left_button' # button_state /\ left_button'.kind = "Down") =>
          /\ Len(clone') = Len(rings) + 1
          /\ SubSeq(clone', 1, Len(rings)) = rings
          /\ LET new == clone'[Len(clone')]
             IN  /\ new.origin = left_button'.pos
                 /\ new.radius = 0
                 /\ new.weight = 6
                 /\ new.growth_rate = 1
                 /\ new.direction = "Growing"
                 /\ new.color \in Colors ]_vars

\* C8 witness: a ring was spawned at the press location behind two rings, one
\* of them Shrinking at a positive radius.
C8_Witness ==
    /\ Len(clone) = 3
    /\ left_button = Down(clone[3].origin)
    /\ clone[3].radius = 0
    /\ rings[3].radius = 1
    /\ \E i \in 1..2 : clone[i].direction = "Shrinking" /\ clone[i].radius > 0

\* The fields of a ring that no step may change.
Fixed(ring) == <<ring.origin, ring.weight, ring.growth_rate, ring.color>>

\* C9: the collection only grows and a step neither adds, removes nor reorders
\* rings: the ring at index i stays at index i with its origin, weight,
\* growth_rate and colour, growth_rate is positive, and the step changes
\* nothing but radius and direction.
C9_RingsStayInPlace ==
    [][ /\ Len(rings') >= Len(rings)
        /\ Len(rings') = Len(clone')
        /\ \A i \in 1..Len(rings) : Fixed(rings'[i]) = Fixed(rings[i])
        /\ \A i \in 1..Len(clone') : Fixed(rings'[i]) = Fixed(clone'[i])
        /\ \A i \in 1..Len(rings') : rings'[i].growth_rate > 0 ]_vars

\* C9 witness: three rings of which the first carries a colour the others do
\* not, after steps that have changed directions and made a radius negative.
C9_Witness ==
    /\ Len(rings) = 3
    /\ rings[1].color # rings[2].color
    /\ rings[1].color # rings[3].color
    /\ rings[1].origin # rings[2].origin
    /\ \E i \in 1..3 : rings[i].radius < 0
    /\ \E i \in 1..3 : rings[i].direction = "Shrinking"

\* C10: a ring that has gone n ticks without intersecting a ring and without
\* changing direction has radius start + n * growth_rate if Growing and
\* start - n * growth_rate if Shrinking; every tick on which a ring does not
\* intersect moves its radius by exactly growth_rate in its direction; a ring
\* alone in the collection has been Growing since its spawn, with radius
\* n * growth_rate >= 0 after its n-th tick.
C10_MonotonicRuns ==
    /\ Len(run) = Len(rings)
    /\ Len(clone) = Len(rings)
    /\ \A i \in 1..Len(clone) :
          (\A j \in 1..Len(clone) : ~Touching(clone[i], clone[j])) =>
              rings[i].radius =
                  IF clone[i].direction = "Growing"
                  THEN clone[i].radius + clone[i].growth_rate
                  ELSE clone[i].radius - clone[i].growth_rate
    /\ \A i \in 1..Len(rings) :
          rings[i].radius =
              IF rings[i].direction = "Growing"
              THEN run[i].from + run[i].n * rings[i].growth_rate
              ELSE run[i].from - run[i].n * rings[i].growth_rate
    /\ Len(rings) = 1 =>
          /\ rings[1].direction = "Growing"
          /\ run[1].from = 0
          /\ run[1].n >= 1
          /\ rings[1].radius = run[1].n * 1
          /\ rings[1].radius >= 0

\* C10 witness: among several rings one has grown for three ticks from a
\* radius other than 0 while another has shrunk for a tick, neither
\* intersecting.
C10_Witness ==
    \E i, j \in 1..Len(rings) :
        /\ rings[i].direction = "Growing"
        /\ run[i].n >= 3
        /\ run[i].from # 0
        /\ rings[i].radius = run[i].from + run[i].n
        /\ rings[j].direction = "Shrinking"
        /\ run[j].n >= 1
        /\ rings[j].radius = run[j].from - run[j].n

\* C11: a lone ring started Shrinking at a radius >= 0 loses growth_rate per
\* tick while it is Shrinking; the tick that takes its radius below zero
\* leaves it Growing at a radius >= -growth_rate, the tick after that leaves
\* it at a radius >= 0, and from then on it grows.
C11_LoneZeroBounce ==
    /\ Len(rings) = 1
    /\ rings[1].radius >= -rings[1].growth_rate
    /\ rings[1].radius < 0 => rings[1].direction = "Growing"
    /\ Len(clone) = 1 =>
          /\ clone[1].direction = "Shrinking" =>
                rings[1].radius = clone[1].radius - clone[1].growth_rate
          /\ clone[1].direction = "Shrinking" =>
                (rings[1].direction = "Growing" <=> rings[1].radius < 0)
          /\ clone[1].direction = "Growing" =>
                /\ rings[1].direction = "Growing"
                /\ rings[1].radius = clone[1].radius + clone[1].growth_rate
          /\ clone[1].radius < 0 => rings[1].radius >= 0

\* C11 witness: the lone ring ended the last tick but one at a negative
\* radius, bounced, and is back at a radius >= 0, Growing.
C11_Witness ==
    /\ Len(clone) = 1
    /\ Len(rings) = 1
    /\ clone[1].radius < 0
    /\ clone[1].direction = "Growing"
    /\ rings[1].radius >= 0
    /\ rings[1].direction = "Growing"

\* C12: a step that renders a frame leaves the ring collection and the
\* recorded button state as they were, and the frame holds the background
\* followed by one ellipse per ring, in the order of the collection, each at
\* its ring's origin, of its ring's diameter, colour and weight; so a second
\* draw with no update() between renders the same frame.
C12_DrawingIsReadOnly ==
    [][frame' # frame =>
          /\ rings' = rings
          /\ button_state' = button_state
          /\ Len(frame') = Len(rings) + 1
          /\ frame'[1].cmd = "background"
          /\ \A i \in 1..Len(rings) :
                /\ frame'[i + 1].cmd = "ellipse"
                /\ frame'[i + 1].x_y = rings[i].origin
                /\ frame'[i + 1].w = 2 * rings[i].radius
                /\ frame'[i + 1].h = 2 * rings[i].radius
                /\ frame'[i + 1].stroke = rings[i].color
                /\ frame'[i + 1].stroke_weight = rings[i].weight]_vars

\* C12 witness: the frame rendered last shows the present rings, two or more
\* of them with the first and the last at different origins and of
\* different colours.
C12_Witness ==
    /\ Len(rings) >= 2
    /\ Len(frame) = Len(rings) + 1
    /\ \A i \in 1..Len(rings) :
          /\ frame[i + 1].x_y = rings[i].origin
          /\ frame[i + 1].w = 2 * rings[i].radius
          /\ frame[i + 1].stroke = rings[i].color
    /\ rings[1].origin # rings[Len(rings)].origin
    /\ rings[1].color # rings[Len(rings)].color

\* C13: a ring that ended the last tick at a negative radius ends this tick
\* at a strictly larger radius, and no ring's radius is ever below
\* -growth_rate.
C13_NegativeForOneTick ==
    \A i \in 1..Len(clone) :
        /\ clone[i].radius < 0 => rings[i].radius > clone[i].radius
        /\ rings[i].radius >= -rings[i].growth_rate

\* Ring i of the snapshot intersects some ring of the snapshot, by the
\* predicate as specified.
Hit(i) == \E j \in 1..Len(clone) : Touching(clone[i], clone[j])

\* C14: the intersection flip comes first, then the radius delta, then the
\* zero-bounce: a Growing ring with 0 <= radius < growth_rate that detects an
\* intersection ends the tick Growing at radius - growth_rate, and a
\* Shrinking ring with radius < growth_rate that detects an intersection ends
\* the tick Growing at radius + growth_rate.
C14_FlipDeltaBounce ==
    \A i \in 1..Len(clone) :
        LET r == clone[i].radius
            g == clone[i].growth_rate
        IN  /\ (Hit(i) /\ clone[i].direction = "Growing" /\ 0 <= r /\ r < g) =>
                  /\ rings[i].radius = r - g
                  /\ rings[i].direction = "Growing"
            /\ (Hit(i) /\ clone[i].direction = "Shrinking" /\ r < g) =>
                  /\ rings[i].radius = r + g
                  /\ rings[i].direction = "Growing"

\* C14 witness: a Growing ring met an intersection at a radius of at least 0
\* and below its growth_rate and ended the tick negative and Growing, and a
\* Shrinking ring met one at a radius below its growth_rate and ended the tick
\* Growing and larger.
C14_Witness ==
    /\ Len(clone) = Len(rings)
    /\ \E i \in 1..Len(clone) :
          /\ Hit(i)
          /\ clone[i].direction = "Growing"
          /\ 0 <= clone[i].radius
          /\ clone[i].radius < clone[i].growth_rate
          /\ rings[i].radius < 0
          /\ rings[i].direction = "Growing"
    /\ \E i \in 1..Len(clone) :
          /\ Hit(i)
          /\ clone[i].direction = "Shrinking"
          /\ clone[i].radius < clone[i].growth_rate
          /\ rings[i].radius > clone[i].radius
          /\ rings[i].direction = "Growing"

\* C15: on a tick that spawns, the snapshot of the step is the collection
\* with the new ring (radius 0, Growing, at the press) at its end, every ring
\* that intersects the new ring in that snapshot is flipped by this step, and
\* a new ring that intersects no ring of the snapshot ends the tick Growing at
\* radius growth_rate = 0.5.
C15_SpawnThenStep ==
    [][(left_button' # button_state /\ left_button'.kind = "Down") =>
          LET n == Len(rings) + 1
          IN  /\ Len(clone') = n
              /\ Len(rings') = n
              /\ \A i \in 1..Len(rings) : clone'[i] = rings[i]
              /\ clone'[n].origin = left_button'.pos
              /\ clone'[n].radius = DefaultRadius
              /\ clone'[n].direction = "Growing"
              /\ \A i \in 1..n : Touching(clone'[i], clone'[n]) => Flipped(i)'
              /\ \A new \in {n} :
                    ~Hit(new)' =>
                        /\ rings'[new].radius = DefaultGrowthRate
                        /\ rings'[new].direction = "Growing"]_vars

\* C15 witness: the press just sampled put a ring at the end of a collection
\* of two or more; the new ring met no ring of the snapshot and ended the
\* tick Growing at radius 0.5, while an older ring was flipped by this step.
C15_Witness ==
    LET n == Len(clone)
    IN  /\ n >= 2
        /\ Len(rings) = n
        /\ left_button.kind = "Down"
        /\ clone[n].origin = left_button.pos
        /\ clone[n].radius = DefaultRadius
        /\ clone[n].direction = "Growing"
        /\ ~Hit(n)
        /\ rings[n].radius = DefaultGrowthRate
        /\ rings[n].direction = "Growing"
        /\ \E i \in 1..(n - 1) : Flipped(i)

\* The rings of the snapshot that ring i of the snapshot intersects, by the
\* predicate as specified.
Partners(i) == {j \in 1..Len(clone) : Touching(clone[i], clone[j])}

\* The sequence v last to first.
Reversed(v) == [i \in 1..Len(v) |-> v[Len(v) + 1 - i]]

\* C16: a ring that intersects two or more rings of the snapshot is flipped
\* once: its radius moves by growth_rate against the direction it had, it
\* ends in the opposite direction (Growing if it went below zero), and
\* scanning the snapshot in the opposite order gives the same ring.
C16_ToggledOnce ==
    \A i \in 1..Len(clone) :
        Cardinality(Partners(i)) >= 2 =>
            LET g     == clone[i].growth_rate
                moved == IF clone[i].direction = "Growing"
                         THEN clone[i].radius - g
                         ELSE clone[i].radius + g
            IN  /\ rings[i].radius = moved
                /\ rings[i].direction =
                      (IF clone[i].direction = "Growing" /\ moved >= 0
                       THEN "Shrinking" ELSE "Growing")
                /\ rings[i] = RingUpdate(clone[i], Reversed(clone))

\* C16 witness: a ring intersected two rings of the snapshot at different
\* origins and moved against the direction it had.
C16_Witness ==
    /\ Len(rings) = Len(clone)
    /\ \E i \in 1..Len(clone) :
          /\ \E j, k \in Partners(i) : clone[j].origin # clone[k].origin
          /\ Flipped(i)

\* C17: in every step, a ring goes from Growing to Shrinking only if it
\* intersects a ring of the snapshot; it goes from Shrinking to Growing only
\* if it intersects a Growing ring of the snapshot or its radius less
\* growth_rate is negative; a ring that intersects no ring and has a radius
\* of growth_rate or more keeps its direction; and a ring added by the step
\* enters the snapshot Growing.
C17_DirectionRules ==
    [][LET snapshot == clone'
           after    == rings'
       IN  /\ \A i \in 1..Len(snapshot) :
                 LET was == snapshot[i]
                     now == after[i]
                     hit == \E j \in 1..Len(snapshot) : Touching(was, snapshot[j])
                 IN  /\ (was.direction = "Growing" /\ now.direction = "Shrinking")
                           => hit
                     /\ (was.direction = "Shrinking" /\ now.direction = "Growing")
                           => \/ \E j \in 1..Len(snapshot) :
                                    /\ Touching(was, snapshot[j])
                                    /\ snapshot[j].direction = "Growing"
                              \/ was.radius - was.growth_rate < 0
                     /\ (~hit /\ was.radius >= was.growth_rate)
                           => now.direction = was.direction
           /\ \A i \in (Len(rings) + 1)..Len(snapshot) :
                 snapshot[i].direction = "Growing"]_vars

\* C17 witness: one step turned a ring that intersected nothing from
\* Shrinking to Growing because its radius went below zero, and left a
\* Shrinking ring that intersected nothing at a radius of growth_rate or more
\* Shrinking.
C17_Witness ==
    /\ Len(rings) = Len(clone)
    /\ \E i \in 1..Len(clone) :
          /\ clone[i].direction = "Shrinking"
          /\ rings[i].direction = "Growing"
          /\ ~Hit(i)
    /\ \E i \in 1..Len(clone) :
          /\ ~Hit(i)
          /\ clone[i].radius >= clone[i].growth_rate
          /\ clone[i].direction = "Shrinking"
          /\ rings[i].direction = "Shrinking"

\* C18: any two rings of a reachable collection, before the step and after
\* it, have the same growth_rate, and is_intersecting gives the same answer
\* for the pair taken in either order.
C18_IntersectsIsSymmetric ==
    \A v \in {clone, rings} :
        \A i, j \in 1..Len(v) :
            /\ v[i].growth_rate = v[j].growth_rate
            /\ IsIntersecting(v[i], v[j]) <=> IsIntersecting(v[j], v[i])

\* C18 witness: two rings of different radii at different origins intersect,
\* in either order, by the internal band alone, and the step flipped both.
C18_Witness ==
    /\ Len(rings) = Len(clone)
    /\ \E i, j \in 1..Len(clone) :
          LET dsq == DistanceSq(clone[i].origin, clone[j].origin)
              s   == clone[i].radius + clone[j].radius
          IN  /\ clone[i].origin # clone[j].origin
              /\ clone[i].radius # clone[j].radius
              /\ IsIntersecting(clone[i], clone[j])
              /\ IsIntersecting(clone[j], clone[i])
              /\ ~StrictlyInside(dsq, s - DefaultGrowthRate, s + DefaultGrowthRate)
              /\ Flipped(i)
              /\ Flipped(j)

\* C19: at the end of every tick a Shrinking ring has a radius >= 0, that is,
\* a ring of negative radius is Growing.
C19_ShrinkingIsNonNegative ==
    \A i \in 1..Len(rings) :
        /\ rings[i].direction = "Shrinking" => rings[i].radius >= 0
        /\ rings[i].radius < 0 => rings[i].direction = "Growing"

\* C19 witness: the step took a Shrinking ring from radius 0 below zero and
\* left it Growing, beside a ring that is Shrinking at radius 0.
C19_Witness ==
    /\ Len(rings) = Len(clone)
    /\ \E i \in 1..Len(rings) :
          /\ clone[i].direction = "Shrinking"
          /\ clone[i].radius = 0
          /\ rings[i].radius < 0
          /\ rings[i].direction = "Growing"
    /\ \E i \in 1..Len(rings) :
          /\ rings[i].direction = "Shrinking"
          /\ rings[i].radius = 0

\* The change of ring i's radius over the last step.
Delta(i) == rings[i].radius - clone[i].radius

\* C20: every radius, before the step and after it, is an integer multiple of
\* growth_rate; the step changed every radius by exactly +growth_rate or
\* -growth_rate; and the sum of the radii of any two rings changed by
\* -2 * growth_rate, 0 or +2 * growth_rate.
C20_RadiusOnTheGrid ==
    /\ Len(rings) = Len(clone)
    /\ \A i \in 1..Len(clone) :
          LET g == clone[i].growth_rate
          IN  /\ clone[i].radius % g = 0
              /\ rings[i].radius % g = 0
              /\ Delta(i) \in {g, -g}
    /\ \A i, j \in 1..Len(clone) :
          LET g == clone[i].growth_rate
          IN  i # j => Delta(i) + Delta(j) \in {-2 * g, 0, 2 * g}

\* C20 witness: of three rings the step took two down and one up by
\* growth_rate, so one sum of two radii fell by twice growth_rate and one
\* stayed as it was.
C20_Witness ==
    /\ Len(rings) = Len(clone)
    /\ \E i, j, k \in 1..Len(clone) :
          /\ i # j
          /\ Delta(i) = -DefaultGrowthRate
          /\ Delta(j) = -DefaultGrowthRate
          /\ Delta(k) = DefaultGrowthRate
          /\ clone[i].radius + clone[j].radius > 0

====
